---- MODULE Spec2Model ----
(***************************************************************************)
(* The codemode execution path of demo-agent: the codemode tool            *)
(* (codemodeTool.execute), CodemodeChatAgent.executeCode, the worker       *)
(* module it builds (proxy, callTool, parseSSEResponse), the Worker Loader *)
(* binding CODE_EXECUTOR, the MCP agent's session id, and the part of the  *)
(* Fluma backend the capability calls reach.                               *)
(***************************************************************************)
EXTENDS Integers, Sequences, FiniteSets, TLC

(***************************************************************************)
(* JSON values.  Every value is a record [k, v]: k the JavaScript kind and *)
(* v a tuple (the number or string, the array's elements, or the object's  *)
(* <<key, value>> entries in insertion order).                             *)
(***************************************************************************)
Undef == [k |-> "undef", v |-> <<>>]
Null == [k |-> "null", v |-> <<>>]
Num(n) == [k |-> "num", v |-> <<n>>]
Str(s) == [k |-> "str", v |-> <<s>>]
Arr(s) == [k |-> "arr", v |-> s]
Obj(p) == [k |-> "obj", v |-> p]
\* a template string `${n} text`
Fmt(n, s) == [k |-> "str", v |-> <<s, n>>]

IsArray(x) == x.k = "arr"
IsObject(x) == x.k = "obj"

\* the array length above which summarizeResult replaces an array
SummarizeLimit == 5

TopSummary(result) ==
    Obj(<< <<"count", Num(Len(result.v))>>,
           <<"sample", result.v[1]>>,
           <<"message", Fmt(Len(result.v), "items returned (showing first as sample)")>> >>)

NestedSummary(value) ==
    Obj(<< <<"count", Num(Len(value.v))>>,
           <<"sample", value.v[1]>>,
           <<"message", Fmt(Len(value.v), "items (showing first as sample)")>> >>)

\* a plausible slip: the threshold compared with >= 3 instead of > 5
summarizeResult_LowThreshold(result) ==
    IF IsArray(result)
    THEN IF Len(result.v) = 0
         THEN Obj(<< <<"count", Num(0)>>, <<"items", Arr(<<>>)>> >>)
         ELSE IF Len(result.v) >= 3 THEN TopSummary(result) ELSE result
    ELSE IF IsObject(result)
    THEN Obj([i \in 1..Len(result.v) |->
                IF IsArray(result.v[i][2]) /\ Len(result.v[i][2].v) >= 3
                THEN <<result.v[i][1], NestedSummary(result.v[i][2])>>
                ELSE result.v[i]])
    ELSE result

\* a plausible slip: the fields of a returned object are not looked at
summarizeResult_KeepsFields(result) ==
    IF IsArray(result)
    THEN IF Len(result.v) = 0
         THEN Obj(<< <<"count", Num(0)>>, <<"items", Arr(<<>>)>> >>)
         ELSE IF Len(result.v) > SummarizeLimit THEN TopSummary(result) ELSE result
    ELSE result

summarizeResult(result) ==
    IF IsArray(result)
    THEN IF Len(result.v) = 0
         THEN Obj(<< <<"count", Num(0)>>, <<"items", Arr(<<>>)>> >>)
         ELSE IF Len(result.v) > SummarizeLimit THEN TopSummary(result) ELSE result
    ELSE IF IsObject(result)
    THEN Obj([i \in 1..Len(result.v) |->
                IF IsArray(result.v[i][2]) /\ Len(result.v[i][2].v) > SummarizeLimit
                THEN <<result.v[i][1], NestedSummary(result.v[i][2])>>
                ELSE result.v[i]])
    ELSE result

(***************************************************************************)
(* JSON.stringify followed by JSON.parse (the worker's Response body read  *)
(* back by response.json()): undefined becomes null inside an array and an *)
(* object entry holding undefined is dropped; a top-level undefined under  *)
(* the key "result" is dropped, so it reads back as undefined.             *)
(***************************************************************************)
RECURSIVE DropUndef(_)
DropUndef(p) ==
    IF p = <<>> THEN <<>>
    ELSE IF Head(p)[2] = Undef THEN DropUndef(Tail(p))
    ELSE <<Head(p)>> \o DropUndef(Tail(p))

RECURSIVE JsonRoundTrip(_)
JsonRoundTrip(x) ==
    IF IsArray(x)
    THEN Arr([i \in 1..Len(x.v) |->
                IF x.v[i] = Undef THEN Null ELSE JsonRoundTrip(x.v[i])])
    ELSE IF IsObject(x)
    THEN LET kept == DropUndef(x.v)
         IN  Obj([i \in 1..Len(kept) |-> <<kept[i][1], JsonRoundTrip(kept[i][2])>>])
    ELSE x

(***************************************************************************)
(* Outcomes of an awaited call: a returned value or a thrown Error.        *)
(***************************************************************************)
Returned(v) == [threw |-> FALSE, msg |-> "", val |-> v]
Thrown(m) == [threw |-> TRUE, msg |-> m, val |-> Undef]

(***************************************************************************)
(* The capability bridge inside the worker module: the response of the     *)
(* backend as the worker reads it, parseSSEResponse and callTool.          *)
(*   sse   "unreachable" (fetch rejects), "nodata" (no line starts with    *)
(*         "data: "), "badjson" (the data line is not JSON), "data"        *)
(*   rpc   the JSON-RPC envelope of the data line: an error with a message *)
(*         or a result with a content list of texts                        *)
(* A text is [json, v]: json says that the text is the serialization of v  *)
(* (JSON.parse succeeds and gives v); otherwise v is the text as a string. *)
(***************************************************************************)
JsonText(v) == [json |-> TRUE, v |-> v]
RawText(s) == [json |-> FALSE, v |-> Str(s)]
RpcError(m) == [tag |-> "error", msg |-> m, content |-> <<>>]
RpcResult(c) == [tag |-> "result", msg |-> "", content |-> c]
\* result.result handed back as it is: the content-list wrapper
Wrapper(c) == [k |-> "wrapper", v |-> [i \in 1..Len(c) |-> c[i].v]]

SseResponse(sse, rpc) == [sse |-> sse, rpc |-> rpc]
NoResponse == SseResponse("none", RpcResult(<<>>))

\* a plausible slip: parseSSEResponse gives undefined instead of throwing
parseSSEResponse_NoThrow(resp) ==
    Returned(Undef)

parseSSEResponse(resp) ==
    IF resp.sse = "nodata" THEN Thrown("No data in SSE response")
    ELSE IF resp.sse = "badjson" THEN Thrown("Unexpected token in JSON")
    ELSE Returned(Undef)

\* a content item that has no text (an image, a resource)
NoText == [json |-> FALSE, v |-> Undef]

TextOutcome(result) ==
    LET textContent == result.content[1]
    IN  IF Len(result.content) > 0 /\ textContent # RawText("") /\ textContent # NoText
        THEN Returned(textContent.v)
        ELSE Returned(Wrapper(result.content))

\* a plausible slip: the JSON-RPC error of the response is not looked at
callTool_IgnoresError(resp) ==
    IF resp.sse = "unreachable" THEN Thrown("fetch failed")
    ELSE IF parseSSEResponse(resp).threw THEN parseSSEResponse(resp)
    ELSE IF resp.rpc.tag = "error" THEN Returned(Undef)
    ELSE TextOutcome(resp.rpc)

callTool(resp) ==
    IF resp.sse = "unreachable" THEN Thrown("fetch failed")
    ELSE IF parseSSEResponse(resp).threw THEN parseSSEResponse(resp)
    ELSE IF resp.rpc.tag = "error" THEN Thrown(resp.rpc.msg)
    ELSE TextOutcome(resp.rpc)

(***************************************************************************)
(* The Fluma backend as far as the capability calls of the programs reach  *)
(* it: the events table (ids only) and the handlers of get_event and       *)
(* create_event.  A tools/call naming no registered tool never reaches a   *)
(* handler: the MCP server answers it with a JSON-RPC error.               *)
(***************************************************************************)
EventIds == {"evt-1"}
RegisteredTools == {"get_event", "create_event"}

EventJson(id) == Obj(<< <<"id", Str(id)>>, <<"co_hosts", Arr(<<>>)>>, <<"my_rsvp", Null>> >>)

get_event(event_id, evs) ==
    IF event_id \notin evs
    THEN RpcResult(<<RawText("Event not found")>>)
    ELSE RpcResult(<<JsonText(EventJson(event_id))>>)

create_event == RpcResult(<<RawText("Event created successfully!")>>)

ToolsCall(tool, arg, evs) ==
    IF tool = "get_event" THEN get_event(arg, evs)
    ELSE IF tool = "create_event" THEN create_event
    ELSE RpcError("Tool not found")

EventsAfter(tool, evs) ==
    IF tool = "create_event" THEN evs \cup EventIds ELSE evs

(***************************************************************************)
(* Programs: the source strings handed to the codemode tool, by what they  *)
(* do when the worker module runs them.                                    *)
(*   empty   ""                                                            *)
(*   lit     async () => <arg>                                             *)
(*   throw   async () => { throw new Error(<arg>) }                        *)
(*   hang    async () => { await new Promise(() => {}) }                   *)
(*   call    async () => await codemode.<tool>(<arg>), and with catch:     *)
(*           ... try { ... } catch (e) { return { caught: e.message } }    *)
(*   fetch   async () => (await fetch(<tool>)).json()                      *)
(*   env     async () => env.<tool>                                        *)
(*   scope   async () => { throw new Error(<tool>) }, <tool> a constant of *)
(*           the module that encloses userCode                             *)
(***************************************************************************)
Prog(kind, tool, arg, catch) == [kind |-> kind, tool |-> tool, arg |-> arg, catch |-> catch]

Items(n) == [i \in 1..n |-> Num(i)]

Literals ==
    { Num(42), Undef,
      Arr(<<>>), Arr(Items(3)), Arr(Items(6)),
      Obj(<< <<"events", Arr(Items(6))>> >>),
      Obj(<< <<"events", Arr(Items(3))>>, <<"n", Num(3)>> >>) }

ErrorMessages == {"boom", ""}

McpUrl == "https://fluma/mcp"
HostDebugUrl == "https://demo-agent/api/debug"
OtherUrl == "https://example.com/"
Urls == {McpUrl, HostDebugUrl, OtherUrl}

\* the bindings of the host's Env
HostBindings == {"CF_AIG_TOKEN"}

\* the constants declared in the scope the source is spliced into
ModuleScope == {"SESSION_ID"}

Calls ==
    { <<"get_event", "evt-1">>, <<"get_event", "missing">>,
      <<"create_event", "Party">>, <<"no_such_tool", "x">> }

Programs ==
    {Prog("empty", "", Undef, FALSE), Prog("hang", "", Undef, FALSE)}
    \cup {Prog("lit", "", v, FALSE) : v \in Literals}
    \cup {Prog("throw", "", Str(m), FALSE) : m \in ErrorMessages}
    \cup {Prog("call", c[1], Str(c[2]), FALSE) : c \in Calls}
    \cup {Prog("call", c[1], Str(c[2]), TRUE) : c \in Calls \ {<<"create_event", "Party">>}}
    \cup {Prog("fetch", u, Undef, FALSE) : u \in Urls}
    \cup {Prog("env", n, Undef, FALSE) : n \in HostBindings}
    \cup {Prog("scope", n, Undef, FALSE) : n \in ModuleScope}

(***************************************************************************)
(* The worker module built by executeCode and what CODE_EXECUTOR.get is    *)
(* given with it.                                                          *)
(***************************************************************************)
\* globalOutbound: undefined, the worker inherits the host's network access
GlobalOutbound == "inherit"
\* env: {}
WorkerEnv == {}

OutboundAllowed(url) ==
    IF GlobalOutbound = "inherit" THEN TRUE
    ELSE IF GlobalOutbound = "none" THEN FALSE
    ELSE url = McpUrl

\* `const userCode = ${code};` is a syntax error for the empty source
ModuleParses(code) == code.kind # "empty"

WorkerModule(code, sessionId, e) == [code |-> code, session |-> sessionId, owner |-> e]
NoModule == WorkerModule(Prog("empty", "", Undef, FALSE), 0, 0)

\* the codemode Proxy: its get trap answers every property with a function
\* that calls callTool with the property as the tool name
ProxyGet(prop) == [callable |-> TRUE, toolName |-> prop]

\* the text of a session id in the module: const SESSION_ID = "${sessionId}"
SessionIdText(session) == "session-" \o ToString(session)

\* the value of the module's constant <name> as userCode reads it
ScopeValue(name, m) ==
    IF name = "SESSION_ID" THEN SessionIdText(m.session) ELSE McpUrl

\* the value of env.<name> inside the worker
EnvValue(name) == IF name \in WorkerEnv THEN Str(name) ELSE Undef

(***************************************************************************)
(* The worker's fetch handler: the Response it builds from what userCode() *)
(* did, read back by executeCode with response.json().                     *)
(***************************************************************************)
\* err.stack
WorkerStack == "Error: at userCode"

\* a plausible slip: err.stack goes out as the error
WorkerResponse_StackAsError(out) ==
    IF out.threw
    THEN [loaded |-> TRUE, success |-> FALSE, result |-> Undef, error |-> WorkerStack, stack |-> WorkerStack]
    ELSE [loaded |-> TRUE, success |-> TRUE, result |-> JsonRoundTrip(out.val), error |-> "", stack |-> ""]

WorkerResponse(out) ==
    IF out.threw
    THEN [loaded |-> TRUE, success |-> FALSE, result |-> Undef, error |-> out.msg, stack |-> WorkerStack]
    ELSE [loaded |-> TRUE, success |-> TRUE, result |-> JsonRoundTrip(out.val), error |-> "", stack |-> ""]

\* the module does not load: entrypoint.fetch rejects
LoadFailure == [loaded |-> FALSE, success |-> FALSE, result |-> Undef, error |-> "Unexpected token ';'", stack |-> ""]

\* a plausible slip: a rejected entrypoint.fetch is taken for an empty success
executeCodeTail_SwallowsLoadFailure(w) ==
    IF ~w.loaded THEN Returned(Undef)
    ELSE IF ~w.success
    THEN Thrown(IF w.error # "" THEN w.error ELSE "Code execution failed")
    ELSE Returned(w.result)

\* executeCode from entrypoint.fetch on
executeCodeTail(w) ==
    IF ~w.loaded THEN Thrown(w.error)
    ELSE IF ~w.success
    THEN Thrown(IF w.error # "" THEN w.error ELSE "Code execution failed")
    ELSE Returned(w.result)

(***************************************************************************)
(* codemodeTool.execute: the JSON it returns.  keys are the keys of the    *)
(* serialized object (JSON.stringify drops a key holding undefined);       *)
(* escaped says that an exception left execute instead.                    *)
(***************************************************************************)
ToolResult(escaped, success, result, error) ==
    [escaped |-> escaped, success |-> success, result |-> result, error |-> error,
     keys |-> IF escaped THEN {}
              ELSE IF success
              THEN (IF result = Undef THEN {"success"} ELSE {"success", "result"})
              ELSE {"success", "error"}]

NoResult == ToolResult(FALSE, FALSE, Undef, "")

\* a plausible slip: execute without its try/catch
execute_NoCatch(out) ==
    IF out.threw
    THEN ToolResult(TRUE, FALSE, Undef, out.msg)
    ELSE ToolResult(FALSE, TRUE, summarizeResult(out.val), "")

execute(out) ==
    IF out.threw
    THEN ToolResult(FALSE, FALSE, Undef, out.msg)
    ELSE ToolResult(FALSE, TRUE, summarizeResult(out.val), "")

\* the program after its awaited call settled
AfterAwait(code, out) ==
    IF out.threw /\ code.catch
    THEN Returned(Obj(<< <<"caught", Str(out.msg)>> >>))
    ELSE out

(***************************************************************************)
(* State.                                                                  *)
(***************************************************************************)
\* the overlapping runs of the codemode tool that are followed
Exec == {1, 2}
\* Date.now() goes from 0 to MaxClock
MaxClock == 1
\* the backend hands out the session ids 1..MaxSessions
MaxSessions == 2
\* Math.random().toString(36).slice(2, 9)
RandomDraws == {"k3f9x2a", "0"}
Transports == {"data", "nodata", "badjson", "unreachable"}

VARIABLES
    pc,               \* per run: "idle", "init", "load", "awaiting", "running", "done"
    prog,             \* per run: the code given to execute
    sid,              \* per run: sessionId of executeCode (0: none yet)
    xid,              \* per run: executionId of executeCode (<<>>: none yet)
    run,              \* per run: the worker module its entrypoint runs
    res,              \* per run: what execute returned
    sent,             \* per run: the requests the worker sent
    got,              \* per run: the response callTool read
    clock,            \* the last reading of Date.now()
    isolates,         \* CODE_EXECUTOR: the workers loaded, by id
    mcpSessionId,     \* MCPChatAgent.mcpSessionId (0: null)
    storedSessionId,  \* MCPChatAgent storage 'mcp-session-id' (0: absent)
    nextSid,          \* the next session id of the backend
    events            \* Fluma: per MCP session (one FlumaMCP object each), the
                      \* ids of its events table

runVars == <<pc, prog, sid, xid, run, res, sent, got, clock, isolates,
             mcpSessionId, storedSessionId, nextSid, events>>

\* One worker whose program calls two proxy members without awaiting the
\* first before the second (Promise.all): the two invocations of callTool.
Invocations == {1, 2}

VARIABLES
    phase,            \* per invocation of callTool: "fetching" (await fetch),
                      \* "reading" (await response.text()), "returned"
    answer,           \* per invocation: what the backend sent on its connection
    response,         \* per invocation: callTool's local `response`
    outcome           \* per invocation: what callTool returned or threw

bridgeVars == <<phase, answer, response, outcome>>

\* One success of executeCode on its way through summarizeResult into the
\* JSON execute returns.
VARIABLES
    returned,         \* the result executeCode returned
    inserted          \* summarizeResult(result), or NotSummarized before it

summaryVars == <<returned, inserted>>

\* The tool types: Fluma's catalog and the declaration generated from it,
\* and the codemode agent's copy of the declaration.
VARIABLES
    toolDefinitions,  \* Fluma: the catalog of the deployed version
    cachedTypeScript, \* Fluma: generateTypeScript() of the loaded module
    cachedToolDescriptions, \* Fluma: generateToolDescriptions() of the same
    cachedTypes,      \* CodemodeChatAgent.cachedTypes (NoTypes: null)
    generatedTypes,   \* onChatMessage: the types in the system prompt of the
                      \* last chat turn (NoTypes: the turn had none)
    messages          \* the number of chat messages the agent keeps

typesVars == <<toolDefinitions, cachedTypeScript, cachedToolDescriptions,
               cachedTypes, generatedTypes, messages>>

\* Calls of the exported generators after the module was loaded.
VARIABLES
    tools,            \* generateTypeScript: its array `tools` as the last call
                      \* left it
    typeScript,       \* the last call of generateTypeScript(): the catalog it
                      \* read and the text it returned
    toolDescriptions  \* the same for generateToolDescriptions()

generatorVars == <<tools, typeScript, toolDescriptions>>

\* Fluma: the tables of its Durable Objects and the last request answered.
VARIABLES
    db,     \* per Durable Object: the rows of users, events, event_hosts, rsvps
    reply   \* the last tool call or admin request answered: the tool (or
            \* route), the Durable Object addressed, the event_id argument
            \* and the text returned

flumaVars == <<db, reply>>

\* Usage accounting of a chat agent (the same code in both agents).
VARIABLES
    totalUsage,    \* storage key 'total-usage', or NoUsage when not stored
    turn,          \* per chat turn: "idle", "streaming", "read" (onFinish
                   \* between its storage.get and its storage.put), "done"
    usage,         \* per turn: event.usage handed to onFinish
    currentUsage,  \* per turn: what onFinish read from storage
    reported       \* the sum of what the finished turns reported since the
                   \* last resetUsage or clearState

usageVars == <<totalUsage, turn, usage, currentUsage, reported>>

\* Direct tool calls of the MCP agent: per invocation of callFlumaTool
VARIABLES
    toolPhase,     \* "idle", "fetching", "reading", "returned"
    httpResponse,  \* the response fetch settled with
    toolOutput     \* what callFlumaTool returned (or that it threw)

toolsVars == <<toolPhase, httpResponse, toolOutput>>

\* what the steps of a run of the codemode tool leave alone, and the same
\* for the other parts
outsideRun == <<bridgeVars, summaryVars, typesVars, generatorVars, flumaVars, usageVars, toolsVars>>
outsideBridge == <<runVars, summaryVars, typesVars, generatorVars, flumaVars, usageVars, toolsVars>>
outsideSummary == <<runVars, bridgeVars, typesVars, generatorVars, flumaVars, usageVars, toolsVars>>
outsideTypes == <<runVars, bridgeVars, summaryVars, generatorVars, flumaVars, usageVars, toolsVars>>
outsideGenerator == <<runVars, bridgeVars, summaryVars, flumaVars, usageVars, toolsVars>>
outsideFluma == <<runVars, bridgeVars, summaryVars, typesVars, generatorVars, usageVars, toolsVars>>
outsideUsage == <<runVars, bridgeVars, summaryVars, typesVars, generatorVars, flumaVars, toolsVars>>
outsideTools == <<runVars, bridgeVars, summaryVars, typesVars, generatorVars, flumaVars, usageVars>>

vars == <<runVars, outsideRun>>

NoOutcome == [threw |-> FALSE, msg |-> "pending", val |-> Undef]

BridgeIdle ==
    /\ phase = [c \in Invocations |-> "fetching"]
    /\ answer = [c \in Invocations |-> NoResponse]
    /\ response = [c \in Invocations |-> NoResponse]
    /\ outcome = [c \in Invocations |-> NoOutcome]

RunInit ==
    /\ pc = [e \in Exec |-> "idle"]
    /\ prog = [e \in Exec |-> Prog("empty", "", Undef, FALSE)]
    /\ sid = [e \in Exec |-> 0]
    /\ xid = [e \in Exec |-> <<>>]
    /\ run = [e \in Exec |-> NoModule]
    /\ res = [e \in Exec |-> NoResult]
    /\ sent = [e \in Exec |-> <<>>]
    /\ got = [e \in Exec |-> NoResponse]
    /\ clock = 0
    /\ isolates = [i \in {} |-> NoModule]
    /\ mcpSessionId = 0
    /\ storedSessionId = 0
    /\ nextSid = 1
    /\ events = [s \in 1..MaxSessions |-> {}]

NotSummarized == [k |-> "none", v |-> <<>>]

SummaryIdle ==
    /\ returned = Undef
    /\ inserted = NotSummarized

(***************************************************************************)
(* Fluma's catalog (tools/schemas.ts) and the generators of                *)
(* tools/type-generator.ts.  A field of a schema is written as the chain   *)
(* of zod calls that declares it, e.g. z.enum([...]).optional().describe() *)
(***************************************************************************)
Z(call, args) == [call |-> call, args |-> args]
FieldDecl(key, chain) == [key |-> key, chain |-> chain]

zString == <<Z("string", <<>>), Z("describe", <<>>)>>
zStringOptional == <<Z("string", <<>>), Z("optional", <<>>), Z("describe", <<>>)>>
zEmail == <<Z("string", <<>>), Z("email", <<>>), Z("describe", <<>>)>>
zEmailOptional == <<Z("string", <<>>), Z("email", <<>>), Z("optional", <<>>), Z("describe", <<>>)>>
zEnum(options) == <<Z("enum", options), Z("describe", <<>>)>>
zEnumOptional(options) == <<Z("enum", options), Z("optional", <<>>), Z("describe", <<>>)>>

EventIdField == FieldDecl("event_id", zString)
RsvpStatuses == <<"going", "maybe", "not_going">>

ToolDef(name, description, schema) ==
    [name |-> name, description |-> description, schema |-> schema]

\* toolDefinitions of schemas.ts, in the order of its keys
ToolDefinitions ==
    << ToolDef("get_profile", "Get your user profile", <<>>),
       ToolDef("update_profile", "Update your user profile",
               << FieldDecl("first_name", zStringOptional),
                  FieldDecl("last_name", zStringOptional),
                  FieldDecl("email", zEmailOptional) >>),
       ToolDef("list_events", "List all events with optional filtering",
               << FieldDecl("filter", zEnumOptional(<<"upcoming", "past", "hosting", "attending", "all">>)) >>),
       ToolDef("get_event", "Get details of a specific event", <<EventIdField>>),
       ToolDef("create_event", "Create a new event (you will be the host)",
               << FieldDecl("title", zString),
                  FieldDecl("description", zStringOptional),
                  FieldDecl("location", zString),
                  FieldDecl("date", zString) >>),
       ToolDef("update_event", "Update an event you host (will notify attendees)",
               << EventIdField,
                  FieldDecl("title", zStringOptional),
                  FieldDecl("description", zStringOptional),
                  FieldDecl("location", zStringOptional),
                  FieldDecl("date", zStringOptional) >>),
       ToolDef("delete_event", "Delete an event you host (will notify attendees)", <<EventIdField>>),
       ToolDef("list_event_rsvps", "List all RSVPs for an event you host",
               << EventIdField,
                  FieldDecl("status", zEnumOptional(<<"going", "maybe", "not_going", "all">>)) >>),
       ToolDef("add_cohost", "Add a co-host to your event",
               << EventIdField, FieldDecl("user_email", zEmail) >>),
       ToolDef("remove_cohost", "Remove a co-host from your event",
               << EventIdField, FieldDecl("user_email", zEmail) >>),
       ToolDef("rsvp", "RSVP to an event",
               << EventIdField, FieldDecl("status", zEnum(RsvpStatuses)) >>),
       ToolDef("update_rsvp", "Update your RSVP status for an event",
               << EventIdField, FieldDecl("status", zEnum(RsvpStatuses)) >>),
       ToolDef("cancel_rsvp", "Cancel your RSVP for an event", <<EventIdField>>),
       ToolDef("get_my_rsvps", "Get all events you've RSVP'd to", <<>>),
       ToolDef("get_my_events", "Get all events you're hosting", <<>>) >>

\* the zod schema object a chain of calls builds: its class, the options of
\* an enum, and the schema an optional wraps (none, or one)
ZodType(class, options, inner) == [class |-> class, options |-> options, inner |-> inner]

ZodCall(schema, z) ==
    IF z.call = "string" THEN ZodType("ZodString", <<>>, <<>>)
    ELSE IF z.call = "enum" THEN ZodType("ZodEnum", z.args, <<>>)
    ELSE IF z.call = "optional" THEN ZodType("ZodOptional", <<>>, <<schema>>)
    ELSE schema

RECURSIVE ZodSchema(_)
ZodSchema(chain) ==
    IF Len(chain) = 1 THEN ZodCall(ZodType("", <<>>, <<>>), chain[1])
    ELSE ZodCall(ZodSchema(SubSeq(chain, 1, Len(chain) - 1)), chain[Len(chain)])

\* Array.prototype.join
RECURSIVE Join(_, _)
Join(strings, separator) ==
    IF Len(strings) = 0 THEN ""
    ELSE IF Len(strings) = 1 THEN strings[1]
    ELSE strings[1] \o separator \o Join(Tail(strings), separator)

\* a plausible slip: an optional schema is not unwrapped
RECURSIVE getZodTypeString_NoUnwrap(_)
getZodTypeString_NoUnwrap(schema) ==
    IF schema.class = "ZodString" THEN "string"
    ELSE IF schema.class = "ZodNumber" THEN "number"
    ELSE IF schema.class = "ZodBoolean" THEN "boolean"
    ELSE IF schema.class = "ZodEnum"
    THEN Join([i \in 1..Len(schema.options) |-> "'" \o schema.options[i] \o "'"], " | ")
    ELSE IF schema.class = "ZodArray" THEN getZodTypeString_NoUnwrap(schema.inner[1]) \o "[]"
    ELSE IF schema.class = "ZodObject" THEN "object"
    ELSE "any"

RECURSIVE getZodTypeString(_)
getZodTypeString(schema) ==
    IF schema.class = "ZodString" THEN "string"
    ELSE IF schema.class = "ZodNumber" THEN "number"
    ELSE IF schema.class = "ZodBoolean" THEN "boolean"
    ELSE IF schema.class = "ZodEnum"
    THEN Join([i \in 1..Len(schema.options) |-> "'" \o schema.options[i] \o "'"], " | ")
    ELSE IF schema.class = "ZodOptional" THEN getZodTypeString(schema.inner[1])
    ELSE IF schema.class = "ZodArray" THEN getZodTypeString(schema.inner[1]) \o "[]"
    ELSE IF schema.class = "ZodObject" THEN "object"
    ELSE "any"

\* zodSchema.isOptional?.() || zodSchema instanceof z.ZodOptional
isOptional(schema) == schema.class \in {"ZodOptional", "ZodDefault", "ZodAny"}

\* `${key}${isOptional ? "?" : ""}: ${fieldType}`, joined by ", "
Params(shape) ==
    Join([i \in 1..Len(shape) |->
            LET zodSchema == ZodSchema(shape[i].chain)
            IN  shape[i].key \o (IF isOptional(zodSchema) THEN "?" ELSE "")
                \o ": " \o getZodTypeString(zodSchema)], ", ")

\* the line generateTypeScript pushes for one tool
ToolLine(toolDef) ==
    toolDef.name \o "({" \o Params(toolDef.schema) \o "}): Promise<any> // " \o toolDef.description

\* the return of generateTypeScript for the array `tools`
Declaration(lines) ==
    "declare const codemode: {\n  " \o Join(lines, ";\n  ") \o ";\n};"

generateTypeScript(defs) ==
    Declaration([i \in 1..Len(defs) |-> ToolLine(defs[i])])

\* a plausible slip: the lines are joined by ", "
generateToolDescriptions_OneLine(defs) ==
    Join([i \in 1..Len(defs) |-> "- " \o defs[i].name \o ": " \o defs[i].description], ", ")

generateToolDescriptions(defs) ==
    Join([i \in 1..Len(defs) |-> "- " \o defs[i].name \o ": " \o defs[i].description], "\n")

\* the catalogs of the versions of Fluma that get deployed: the whole of
\* toolDefinitions, and versions before tools were added
Catalogs ==
    { ToolDefinitions, SubSeq(ToolDefinitions, 1, 4), SubSeq(ToolDefinitions, 1, 10),
      SubSeq(ToolDefinitions, 4, 7), SubSeq(ToolDefinitions, 11, 15) }

\* cachedTypes null (an empty text counts as none: `if (this.cachedTypes)`)
NoTypes == ""

TypesInit ==
    /\ toolDefinitions = ToolDefinitions
    /\ cachedTypeScript = generateTypeScript(ToolDefinitions)
    /\ cachedToolDescriptions = generateToolDescriptions(ToolDefinitions)
    /\ cachedTypes = NoTypes
    /\ generatedTypes = NoTypes
    /\ messages = 0

Generated(defs, text) == [defs |-> defs, text |-> text]

GeneratorIdle ==
    /\ tools = <<>>
    /\ typeScript = Generated(<<>>, "")
    /\ toolDescriptions = Generated(<<>>, "")

(***************************************************************************)
(* Fluma's tables.  A users row is its id and email, an events row its id, *)
(* title and host_id (description, location and date are updated by the    *)
(* same pattern as title and are left out), an event_hosts row its         *)
(* event_id and user_id, an rsvps row its event_id, user_id and status     *)
(* (UNIQUE(event_id, user_id) makes the pair identify the row).            *)
(***************************************************************************)
DefaultUser == "test-user-1"
DefaultEmail == "demo@fluma.events"
OtherUser == "user-2"
OtherEmail == "guest@fluma.events"
Emails == {DefaultEmail, OtherEmail, "new@fluma.events"}
EventUuids == {"e1", "e2"}
Titles == {"Demo Night", "Launch"}
Statuses == {RsvpStatuses[i] : i \in 1..Len(RsvpStatuses)}

\* the Durable Object the admin route addresses, and the MCP sessions, each
\* of which the agents library routes to a Durable Object of its own
SharedObject == "fluma-shared"
McpSessions == {"session-1"}
Objects == McpSessions \cup {SharedObject}

UserRow(id, email) == [id |-> id, email |-> email]
EventRow(id, title, host_id) == [id |-> id, title |-> title, host_id |-> host_id]
HostRow(event_id, user_id) == [event_id |-> event_id, user_id |-> user_id]
RsvpRow(event_id, user_id, status) == [event_id |-> event_id, user_id |-> user_id, status |-> status]
Tables(u, e, h, r) == [users |-> u, events |-> e, event_hosts |-> h, rsvps |-> r]

\* SCHEMA run by initDB on a new Durable Object
NoTables == Tables({}, {}, {}, {})

Reply(tool, object, event_id, text) ==
    [tool |-> tool, object |-> object, event_id |-> event_id, text |-> text]
NoReply == Reply("", "", "", "")

FlumaInit ==
    /\ db = [o \in Objects |-> NoTables]
    /\ reply = NoReply

\* chat turns of one agent
MaxTurns == 2
Turns == 1..MaxTurns
\* token counts a turn can report
Tokens == {1, 2}

UsageData(inputTokens, outputTokens) ==
    [inputTokens |-> inputTokens, outputTokens |-> outputTokens]
\* no value under the key, and an event without usage
NoUsage == [none |-> TRUE]

UsageIdle ==
    /\ totalUsage = NoUsage
    /\ turn = [t \in Turns |-> "idle"]
    /\ usage = [t \in Turns |-> NoUsage]
    /\ currentUsage = [t \in Turns |-> NoUsage]
    /\ reported = UsageData(0, 0)

\* an HTTP response: response.ok, its status line and its body
HttpResponse(ok, status, body) == [ok |-> ok, status |-> status, body |-> body]
NoHttpResponse == HttpResponse(FALSE, "", NoResponse)

ToolsIdle ==
    /\ toolPhase = [c \in Invocations |-> "idle"]
    /\ httpResponse = [c \in Invocations |-> NoHttpResponse]
    /\ toolOutput = [c \in Invocations |-> NoResult]

Init ==
    /\ RunInit /\ BridgeIdle /\ SummaryIdle /\ TypesInit /\ GeneratorIdle
    /\ FlumaInit /\ UsageIdle /\ ToolsIdle

\* MCPChatAgent.getDebugInfo as served by GET /api/debug
HostDebugInfo(stored) ==
    Obj(<< <<"mcpSessionId", IF stored = 0 THEN Null ELSE Num(stored)>>,
           <<"toolsCount", Num(15)>> >>)

\* what a GET of the url answers
EndpointBody(url, stored) ==
    IF url = HostDebugUrl THEN HostDebugInfo(stored) ELSE Str("Not Found")

Request(url, tool, arg, session) == [url |-> url, tool |-> tool, arg |-> arg, session |-> session]

\* a plausible slip: callTool sends its request a second time
callToolRequests_SendsTwice(toolName, args, session) ==
    << Request(McpUrl, toolName, args, session), Request(McpUrl, toolName, args, session) >>

\* the requests one invocation of callTool sends: its one fetch of MCP_URL
callToolRequests(toolName, args, session) ==
    << Request(McpUrl, toolName, args, session) >>

\* execute returns: executeCode's worker outcome w goes through execute
Finished(e, w) ==
    /\ res' = [res EXCEPT ![e] = execute(executeCodeTail(w))]
    /\ pc' = [pc EXCEPT ![e] = "done"]

(***************************************************************************)
(* codemodeTool.execute is called with code p: executeCode asks the MCP    *)
(* agent for the shared session id (getSharedSessionId, getMcpSessionId up *)
(* to its fetch).                                                          *)
(***************************************************************************)
Execute(e, p) ==
    /\ pc[e] = "idle"
    /\ prog' = [prog EXCEPT ![e] = p]
    /\ LET known == IF mcpSessionId # 0 THEN mcpSessionId ELSE storedSessionId
       IN  IF known # 0
           THEN /\ mcpSessionId' = known
                /\ sid' = [sid EXCEPT ![e] = known]
                /\ pc' = [pc EXCEPT ![e] = "load"]
           ELSE /\ pc' = [pc EXCEPT ![e] = "init"]
                /\ UNCHANGED <<mcpSessionId, sid>>
    /\ UNCHANGED <<xid, run, res, sent, got, clock, isolates, storedSessionId, nextSid, events>>
    /\ UNCHANGED outsideRun

(***************************************************************************)
(* getMcpSessionId after its initialize request: the response carries an   *)
(* mcp-session-id header, or it does not and getMcpSessionId throws.       *)
(***************************************************************************)
InitializeOk(e) ==
    /\ pc[e] = "init"
    /\ nextSid <= MaxSessions
    /\ mcpSessionId' = nextSid
    /\ storedSessionId' = nextSid
    /\ nextSid' = nextSid + 1
    /\ sid' = [sid EXCEPT ![e] = nextSid]
    /\ pc' = [pc EXCEPT ![e] = "load"]
    /\ UNCHANGED <<prog, xid, run, res, sent, got, clock, isolates, events>>
    /\ UNCHANGED outsideRun

InitializeFails(e) ==
    /\ pc[e] = "init"
    /\ res' = [res EXCEPT ![e] = execute(Thrown("Failed to get MCP session ID"))]
    /\ pc' = [pc EXCEPT ![e] = "done"]
    /\ UNCHANGED <<prog, sid, xid, run, sent, got, clock, isolates,
                   mcpSessionId, storedSessionId, nextSid, events>>
    /\ UNCHANGED outsideRun

(***************************************************************************)
(* executeCode from the executionId on: the id is drawn from Date.now()    *)
(* (no earlier than the last reading) and Math.random(), CODE_EXECUTOR.get *)
(* answers with the worker of that id (a worker already loaded under the   *)
(* id while it is warm, otherwise the module of the callback), and the     *)
(* entrypoint's fetch runs the module up to its first await or its end.    *)
(***************************************************************************)
StartModule(e, m) ==
    IF ~ModuleParses(m.code)
    THEN Finished(e, LoadFailure) /\ UNCHANGED sent
    ELSE IF m.code.kind = "lit"
    THEN Finished(e, WorkerResponse(Returned(m.code.arg))) /\ UNCHANGED sent
    ELSE IF m.code.kind = "throw"
    THEN Finished(e, WorkerResponse(Thrown(m.code.arg.v[1]))) /\ UNCHANGED sent
    ELSE IF m.code.kind = "env"
    THEN Finished(e, WorkerResponse(Returned(EnvValue(m.code.tool)))) /\ UNCHANGED sent
    ELSE IF m.code.kind = "scope"
    THEN Finished(e, WorkerResponse(Thrown(ScopeValue(m.code.tool, m)))) /\ UNCHANGED sent
    ELSE IF m.code.kind = "call"
    THEN IF ProxyGet(m.code.tool).callable
         THEN /\ sent' = [sent EXCEPT ![e] = @ \o callToolRequests(ProxyGet(m.code.tool).toolName, m.code.arg, m.session)]
              /\ pc' = [pc EXCEPT ![e] = "awaiting"]
              /\ UNCHANGED res
         ELSE Finished(e, WorkerResponse(AfterAwait(m.code, Thrown("codemode[prop] is not a function")))) /\ UNCHANGED sent
    ELSE IF m.code.kind = "fetch"
    THEN IF OutboundAllowed(m.code.tool)
         THEN /\ sent' = [sent EXCEPT ![e] = Append(@, Request(m.code.tool, "", Undef, 0))]
              /\ pc' = [pc EXCEPT ![e] = "awaiting"]
              /\ UNCHANGED res
         ELSE Finished(e, WorkerResponse(Thrown("Network access is not allowed"))) /\ UNCHANGED sent
    ELSE /\ pc' = [pc EXCEPT ![e] = "running"]
         /\ UNCHANGED <<res, sent>>

Load(e) ==
    /\ pc[e] = "load"
    /\ \E now \in clock..MaxClock, r \in RandomDraws, warm \in BOOLEAN :
         LET executionId == <<now, r>>
             built == WorkerModule(prog[e], sid[e], e)
             worker == IF executionId \in DOMAIN isolates /\ warm
                       THEN isolates[executionId] ELSE built
         IN  /\ xid' = [xid EXCEPT ![e] = executionId]
             /\ isolates' = [i \in DOMAIN isolates \cup {executionId} |->
                               IF i = executionId THEN worker ELSE isolates[i]]
             /\ run' = [run EXCEPT ![e] = worker]
             /\ clock' = now
             /\ StartModule(e, worker)
    /\ UNCHANGED <<prog, sid, got, mcpSessionId, storedSessionId, nextSid, events>>
    /\ UNCHANGED outsideRun

(***************************************************************************)
(* The awaited request of the program settles: a capability call through   *)
(* callTool (the FlumaMCP object of the request's session handled it       *)
(* unless it was unreachable), or a plain                                  *)
(* fetch of the program.  The program ends, the worker responds, execute   *)
(* returns.                                                                *)
(***************************************************************************)
CallSettles(e) ==
    /\ pc[e] = "awaiting"
    /\ run[e].code.kind = "call"
    /\ \E tr \in Transports, handled \in BOOLEAN :
         /\ tr = "data" => handled
         /\ tr = "unreachable" => ~handled
         /\ LET code == run[e].code
                session == sent[e][1].session
                resp == SseResponse(tr, ToolsCall(code.tool, code.arg.v[1], events[session]))
            IN  /\ got' = [got EXCEPT ![e] = resp]
                /\ Finished(e, WorkerResponse(AfterAwait(code, callTool(resp))))
                /\ events' = IF handled
                             THEN [events EXCEPT ![session] = EventsAfter(code.tool, @)]
                             ELSE events
    /\ UNCHANGED <<prog, sid, xid, run, sent, clock, isolates,
                   mcpSessionId, storedSessionId, nextSid>>
    /\ UNCHANGED outsideRun

FetchSettles(e) ==
    /\ pc[e] = "awaiting"
    /\ run[e].code.kind = "fetch"
    /\ Finished(e, WorkerResponse(Returned(EndpointBody(run[e].code.tool, storedSessionId))))
    /\ UNCHANGED <<prog, sid, xid, run, sent, got, clock, isolates,
                   mcpSessionId, storedSessionId, nextSid, events>>
    /\ UNCHANGED outsideRun

\* MCPChatAgent.clearState
ClearState ==
    /\ storedSessionId # 0 \/ mcpSessionId # 0
    /\ storedSessionId' = 0
    /\ mcpSessionId' = 0
    /\ UNCHANGED <<pc, prog, sid, xid, run, res, sent, got, clock, isolates, nextSid, events>>
    /\ UNCHANGED outsideRun

Next ==
    \/ \E e \in Exec, p \in Programs : Execute(e, p)
    \/ \E e \in Exec : InitializeOk(e)
    \/ \E e \in Exec : InitializeFails(e)
    \/ \E e \in Exec : Load(e)
    \/ \E e \in Exec : CallSettles(e)
    \/ \E e \in Exec : FetchSettles(e)
    \/ ClearState

Spec == Init /\ [][Next]_vars

(***************************************************************************)
(* The bridge on its own: the two invocations of callTool of one worker,   *)
(* against a backend that may answer anything.  Each invocation awaits its *)
(* fetch, then the text of its response, and the two interleave at these   *)
(* awaits in every order.                                                  *)
(***************************************************************************)
Texts ==
    { RawText(""), RawText("Event not found"), NoText,
      JsonText(Str("Event not found")), JsonText(EventJson("evt-1")),
      JsonText(Arr(Items(3))), JsonText(Null) }

Contents ==
    {<<>>} \cup {<<t>> : t \in Texts}
    \cup {<<t, RawText("more")>> : t \in {RawText(""), RawText("Event not found")}}

BackendResponses ==
    {SseResponse("data", RpcResult(c)) : c \in Contents}
    \cup {SseResponse("data", RpcError("Tool not found"))}
    \cup {SseResponse(tr, RpcResult(<<>>)) : tr \in Transports \ {"data"}}

\* a plausible slip: `response` kept in one variable of the module instead
\* of a local of callTool
Frame_Shared(c) ==
    1

\* where an invocation of callTool keeps its `response`: in its own frame
Frame(c) ==
    c

\* await fetch(MCP_URL, ...) of invocation c settles
FetchSettled(c) ==
    /\ phase[c] = "fetching"
    /\ \E resp \in BackendResponses :
         /\ answer' = [answer EXCEPT ![c] = resp]
         /\ IF resp.sse = "unreachable"
            THEN /\ outcome' = [outcome EXCEPT ![c] = callTool(resp)]
                 /\ phase' = [phase EXCEPT ![c] = "returned"]
                 /\ UNCHANGED response
            ELSE /\ response' = [response EXCEPT ![Frame(c)] = resp]
                 /\ phase' = [phase EXCEPT ![c] = "reading"]
                 /\ UNCHANGED outcome
    /\ UNCHANGED outsideBridge

\* await response.text() of invocation c settles and callTool runs to its
\* return or throw
TextRead(c) ==
    /\ phase[c] = "reading"
    /\ outcome' = [outcome EXCEPT ![c] = callTool(response[Frame(c)])]
    /\ phase' = [phase EXCEPT ![c] = "returned"]
    /\ UNCHANGED <<answer, response>>
    /\ UNCHANGED outsideBridge

BridgeNext ==
    \/ \E c \in Invocations : FetchSettled(c)
    \/ \E c \in Invocations : TextRead(c)

BridgeSpec == Init /\ [][BridgeNext]_vars

(***************************************************************************)
(* summarizeResult on its own: execute is handed a JSON value by           *)
(* executeCode, nested to any depth up to MaxNesting, and summarizes it.   *)
(***************************************************************************)
\* how deep the returned values nest
MaxNesting == 3

Leaves == {Num(1), Str("a"), Null}
ArrayLengths == {0, 1, SummarizeLimit, SummarizeLimit + 1}

ArraysOf(S) == {Arr([i \in 1..n |-> x]) : n \in ArrayLengths, x \in S}
ObjectsOf(S) ==
    {Obj(<< <<"items", x>> >>) : x \in S}

RECURSIVE JsonValues(_)
JsonValues(depth) ==
    IF depth = 0 THEN Leaves
    ELSE LET below == JsonValues(depth - 1)
         IN  below \cup ArraysOf(below) \cup ObjectsOf(below)

\* executeCode returns a value
ExecuteCodeReturns ==
    /\ returned = Undef /\ inserted = NotSummarized
    /\ returned' \in JsonValues(MaxNesting)
    /\ UNCHANGED inserted
    /\ UNCHANGED outsideSummary

\* execute: result: summarizeResult(result)
Summarize ==
    /\ returned # Undef /\ inserted = NotSummarized
    /\ inserted' = summarizeResult(returned)
    /\ UNCHANGED returned
    /\ UNCHANGED outsideSummary

SummaryNext == ExecuteCodeReturns \/ Summarize

SummarySpec == Init /\ [][SummaryNext]_vars

(***************************************************************************)
(* The tool types on their way into the system prompt: Fluma serves the    *)
(* declaration it generated when its module was loaded (GET /types), the   *)
(* codemode agent fetches it on its first chat turn and keeps it in        *)
(* cachedTypes.  (total-usage, which clearState also deletes, is written   *)
(* by onFinish and is not followed here.)                                  *)
(***************************************************************************)
\* the chat messages kept are counted up to MaxMessages
MaxMessages == 3

\* a version of Fluma with another catalog is deployed: its module is
\* loaded and cachedTypeScript generated from the new toolDefinitions
DeployCatalog(defs) ==
    /\ defs # toolDefinitions
    /\ toolDefinitions' = defs
    /\ cachedTypeScript' = generateTypeScript(defs)
    /\ cachedToolDescriptions' = generateToolDescriptions(defs)
    /\ UNCHANGED <<cachedTypes, generatedTypes, messages>>
    /\ UNCHANGED outsideTypes

\* onChatMessage up to its system prompt: getToolTypes answers from
\* cachedTypes when it is set; otherwise it fetches /types, and keeps the
\* text or throws when the response is not ok
ChatTurn ==
    /\ messages < MaxMessages
    /\ messages' = messages + 1
    /\ IF cachedTypes # NoTypes
       THEN /\ generatedTypes' = cachedTypes
            /\ UNCHANGED cachedTypes
       ELSE \E ok \in BOOLEAN :
              IF ok
              THEN /\ cachedTypes' = cachedTypeScript
                   /\ generatedTypes' = cachedTypeScript
              ELSE /\ generatedTypes' = NoTypes
                   /\ UNCHANGED cachedTypes
    /\ UNCHANGED <<toolDefinitions, cachedTypeScript, cachedToolDescriptions>>
    /\ UNCHANGED outsideTypes

\* CodemodeChatAgent.clearState
CodemodeClearState ==
    /\ cachedTypes' = NoTypes
    /\ messages' = 0
    /\ UNCHANGED <<toolDefinitions, cachedTypeScript, cachedToolDescriptions, generatedTypes>>
    /\ UNCHANGED outsideTypes

\* the agent's Durable Object is evicted and constructed again: the field
\* initializer runs, storage stays
AgentRestarts ==
    /\ cachedTypes # NoTypes
    /\ cachedTypes' = NoTypes
    /\ UNCHANGED <<toolDefinitions, cachedTypeScript, cachedToolDescriptions,
                   generatedTypes, messages>>
    /\ UNCHANGED outsideTypes

TypesNext ==
    \/ \E defs \in Catalogs : DeployCatalog(defs)
    \/ ChatTurn
    \/ CodemodeClearState
    \/ AgentRestarts

TypesSpec == Init /\ [][TypesNext]_vars

(***************************************************************************)
(* The generators called again after the module was loaded, for the        *)
(* catalog of the version deployed.                                        *)
(***************************************************************************)
\* a plausible slip: the array `tools` declared outside the function
ToolsArray_Kept(previous) ==
    previous

\* const tools: string[] = []: every call starts with an empty array
ToolsArray(previous) ==
    <<>>

GenerateTypeScript ==
    /\ tools' = ToolsArray(tools) \o [i \in 1..Len(toolDefinitions) |-> ToolLine(toolDefinitions[i])]
    /\ typeScript' = Generated(toolDefinitions, Declaration(tools'))
    /\ UNCHANGED toolDescriptions
    /\ UNCHANGED <<typesVars, outsideGenerator>>

GenerateToolDescriptions ==
    /\ toolDescriptions' = Generated(toolDefinitions, generateToolDescriptions(toolDefinitions))
    /\ UNCHANGED <<tools, typeScript>>
    /\ UNCHANGED <<typesVars, outsideGenerator>>

GeneratorNext ==
    \/ \E defs \in Catalogs : DeployCatalog(defs)
    \/ GenerateTypeScript
    \/ GenerateToolDescriptions

GeneratorSpec == Init /\ [][GeneratorNext]_vars

(***************************************************************************)
(* Fluma's tool handlers, as functions from the tables of the Durable      *)
(* Object and the arguments to the tables afterwards and the text          *)
(* returned.  Every handler starts with ensureUser; the calling user is    *)
(* always the default user.  The notification e-mails are sent after the   *)
(* rows were written and write no row; they are left out.                  *)
(***************************************************************************)
Outcome(t, text) == [db |-> t, text |-> text]

ensureUser(t) ==
    IF \E u \in t.users : u.id = DefaultUser
    THEN t
    ELSE [t EXCEPT !.users = @ \cup {UserRow(DefaultUser, DefaultEmail)}]

EventsWithId(t, eventId) == {e \in t.events : e.id = eventId}
UsersWithEmail(t, email) == {u \in t.users : u.email = email}

\* a plausible slip: every user counts as host of an event that exists
isEventHost_AnyUser(t, eventId, userId) ==
    EventsWithId(t, eventId) # {}

isEventHost(t, eventId, userId) ==
    /\ EventsWithId(t, eventId) # {}
    /\ \/ \E e \in EventsWithId(t, eventId) : e.host_id = userId
       \/ HostRow(eventId, userId) \in t.event_hosts

\* getEventAttendees: the users with an RSVP of going or maybe
getEventAttendees(t, eventId) ==
    {u \in t.users : \E r \in t.rsvps :
        r.event_id = eventId /\ r.user_id = u.id /\ r.status \in {"going", "maybe"}}

\* update_profile({email}): UPDATE users SET email; email is UNIQUE, so an
\* address another row holds makes the statement throw
update_profile(t0, email) ==
    LET t == ensureUser(t0)
    IN  IF email = "" THEN Outcome(t, "No updates provided")
        ELSE IF \E u \in t.users : u.id # DefaultUser /\ u.email = email
        THEN Outcome(t, "UNIQUE constraint failed: users.email")
        ELSE Outcome([t EXCEPT !.users = {IF u.id = DefaultUser THEN UserRow(u.id, email) ELSE u : u \in @}],
                     "Profile updated successfully")

\* list_events({filter: "all"}): events JOIN users ON host_id
list_events(t0) ==
    LET t == ensureUser(t0)
        found == {e \in t.events : \E u \in t.users : u.id = e.host_id}
    IN  Outcome(t, IF found # {} THEN "Found " \o ToString(Cardinality(found)) \o " event(s)"
                   ELSE "No events found")

\* create_event with the id crypto.randomUUID() drew
createEvent(t0, eventId, title) ==
    LET t == ensureUser(t0)
    IN  Outcome([t EXCEPT !.events = @ \cup {EventRow(eventId, title, DefaultUser)}],
                "Event created successfully!")

\* update_event({event_id, title}); title "" stands for a title not given
update_event(t0, event_id, title) ==
    LET t == ensureUser(t0)
    IN  IF ~isEventHost(t, event_id, DefaultUser)
        THEN Outcome(t, "You must be a host of this event to update it")
        ELSE IF EventsWithId(t, event_id) = {}
        THEN Outcome(t, "Event not found")
        ELSE LET oldEvent == CHOOSE e \in EventsWithId(t, event_id) : TRUE
             IN  IF title # "" /\ title # oldEvent.title
                 THEN Outcome([t EXCEPT !.events = (@ \ {oldEvent})
                                   \cup {EventRow(event_id, title, oldEvent.host_id)}],
                              "Event updated successfully!")
                 ELSE Outcome(t, "No updates provided")

\* a plausible slip: delete_event deletes the events row only
DeleteEventRows_OnlyEvent(t, event_id) ==
    [t EXCEPT !.events = {e \in @ : e.id # event_id}]

\* the three DELETE statements of delete_event
DeleteEventRows(t, event_id) ==
    [t EXCEPT !.event_hosts = {h \in @ : h.event_id # event_id},
              !.rsvps = {r \in @ : r.event_id # event_id},
              !.events = {e \in @ : e.id # event_id}]

delete_event(t0, event_id) ==
    LET t == ensureUser(t0)
    IN  IF EventsWithId(t, event_id) = {}
        THEN Outcome(t, "Event not found")
        ELSE IF \A e \in EventsWithId(t, event_id) : e.host_id # DefaultUser
        THEN Outcome(t, "Only the primary host can delete an event")
        ELSE LET attendees == getEventAttendees(t, event_id)
             IN  Outcome(DeleteEventRows(t, event_id),
                         "Event deleted successfully."
                         \o (IF attendees # {}
                             THEN " Notified " \o ToString(Cardinality(attendees)) \o " attendee(s)."
                             ELSE ""))

add_cohost(t0, event_id, user_email) ==
    LET t == ensureUser(t0)
    IN  IF ~isEventHost(t, event_id, DefaultUser)
        THEN Outcome(t, "You must be a host of this event to add co-hosts")
        ELSE IF UsersWithEmail(t, user_email) = {}
        THEN Outcome(t, "User not found. They need to log in first.")
        ELSE LET newHost == CHOOSE u \in UsersWithEmail(t, user_email) : TRUE
             IN  IF \E e \in EventsWithId(t, event_id) : e.host_id = newHost.id
                 THEN Outcome(t, "This user is already the primary host")
                 ELSE IF HostRow(event_id, newHost.id) \in t.event_hosts
                 THEN Outcome(t, "This user is already a co-host")
                 ELSE Outcome([t EXCEPT !.event_hosts = @ \cup {HostRow(event_id, newHost.id)}],
                              "added as co-host")

remove_cohost(t0, event_id, user_email) ==
    LET t == ensureUser(t0)
    IN  IF EventsWithId(t, event_id) = {}
        THEN Outcome(t, "Event not found")
        ELSE IF \A e \in EventsWithId(t, event_id) : e.host_id # DefaultUser
        THEN Outcome(t, "Only the primary host can remove co-hosts")
        ELSE IF UsersWithEmail(t, user_email) = {}
        THEN Outcome(t, "User not found")
        ELSE LET coHost == CHOOSE u \in UsersWithEmail(t, user_email) : TRUE
             IN  Outcome([t EXCEPT !.event_hosts = @ \ {HostRow(event_id, coHost.id)}],
                         "removed as co-host")

MyRsvps(t, event_id) == {r \in t.rsvps : r.event_id = event_id /\ r.user_id = DefaultUser}

statusText(status) ==
    IF status = "going" THEN "You're going!"
    ELSE IF status = "maybe" THEN "Marked as maybe"
    ELSE "Marked as not going"

\* a plausible slip: rsvp without its look-up of the event
rsvp_AnyEvent(t0, event_id, status) ==
    LET t == ensureUser(t0)
    IN  Outcome([t EXCEPT !.rsvps = (@ \ MyRsvps(t, event_id))
                      \cup {RsvpRow(event_id, DefaultUser, status)}],
                statusText(status))

rsvp(t0, event_id, status) ==
    LET t == ensureUser(t0)
    IN  IF EventsWithId(t, event_id) = {}
        THEN Outcome(t, "Event not found")
        ELSE Outcome([t EXCEPT !.rsvps = (@ \ MyRsvps(t, event_id))
                          \cup {RsvpRow(event_id, DefaultUser, status)}],
                     statusText(status))

update_rsvp(t0, event_id, status) ==
    LET t == ensureUser(t0)
    IN  IF MyRsvps(t, event_id) = {}
        THEN Outcome(t, "You haven't RSVP'd to this event yet. Use the rsvp tool instead.")
        ELSE Outcome([t EXCEPT !.rsvps = (@ \ MyRsvps(t, event_id))
                          \cup {RsvpRow(event_id, DefaultUser, status)}],
                     "RSVP updated")

cancel_rsvp(t0, event_id) ==
    LET t == ensureUser(t0)
    IN  IF MyRsvps(t, event_id) = {}
        THEN Outcome(t, "You haven't RSVP'd to this event")
        ELSE Outcome([t EXCEPT !.rsvps = @ \ MyRsvps(t, event_id)], "RSVP cancelled")

\* FlumaMCP.fetch, POST /reset: the three DELETE statements, users kept
reset(t) ==
    Outcome([t EXCEPT !.event_hosts = {}, !.rsvps = {}, !.events = {}], "success")

(***************************************************************************)
(* A tool call of an MCP session goes to the Durable Object of the         *)
(* session; POST /admin/reset goes to the Durable Object named             *)
(* "fluma-shared" and answers success whatever that object answered.       *)
(***************************************************************************)
ToolAnswered(session, tool, event_id, handled) ==
    /\ db' = [db EXCEPT ![session] = handled.db]
    /\ reply' = Reply(tool, session, event_id, handled.text)
    /\ UNCHANGED outsideFluma

AdminReset ==
    /\ db' = [db EXCEPT ![SharedObject] = reset(@).db]
    /\ reply' = Reply("/admin/reset", SharedObject, "", "All events cleared")
    /\ UNCHANGED outsideFluma

FlumaNext ==
    \/ \E s \in McpSessions, email \in Emails \cup {""} :
         ToolAnswered(s, "update_profile", "", update_profile(db[s], email))
    \/ \E s \in McpSessions :
         ToolAnswered(s, "list_events", "", list_events(db[s]))
    \/ \E s \in McpSessions, x \in EventUuids, title \in Titles :
         /\ EventsWithId(db[s], x) = {}
         /\ ToolAnswered(s, "create_event", x, createEvent(db[s], x, title))
    \/ \E s \in McpSessions, x \in EventUuids, title \in Titles \cup {""} :
         ToolAnswered(s, "update_event", x, update_event(db[s], x, title))
    \/ \E s \in McpSessions, x \in EventUuids :
         ToolAnswered(s, "delete_event", x, delete_event(db[s], x))
    \/ \E s \in McpSessions, x \in EventUuids, email \in Emails :
         ToolAnswered(s, "add_cohost", x, add_cohost(db[s], x, email))
    \/ \E s \in McpSessions, x \in EventUuids, email \in Emails :
         ToolAnswered(s, "remove_cohost", x, remove_cohost(db[s], x, email))
    \/ \E s \in McpSessions, x \in EventUuids, status \in Statuses :
         ToolAnswered(s, "rsvp", x, rsvp(db[s], x, status))
    \/ \E s \in McpSessions, x \in EventUuids, status \in Statuses :
         ToolAnswered(s, "update_rsvp", x, update_rsvp(db[s], x, status))
    \/ \E s \in McpSessions, x \in EventUuids :
         ToolAnswered(s, "cancel_rsvp", x, cancel_rsvp(db[s], x))
    \/ AdminReset

FlumaSpec == Init /\ [][FlumaNext]_vars

(***************************************************************************)
(* The same tools on tables that hold rows of a second user.  The code     *)
(* inserts the default user only; add_cohost expects users who "need to    *)
(* log in first", a login that is not part of this source.  The tables     *)
(* below satisfy SCHEMA: both users, the event "e1" or no event, hosted by *)
(* either user, the other user co-host or not, with or without an RSVP of  *)
(* the second user.                                                        *)
(***************************************************************************)
BothUsers == {UserRow(DefaultUser, DefaultEmail), UserRow(OtherUser, OtherEmail)}

SeededEvents ==
    {Tables(BothUsers, {}, {}, {})} \cup
    {Tables(BothUsers, {EventRow("e1", "Demo Night", host)}, cohosts, rsvps) :
        host \in {DefaultUser, OtherUser},
        cohosts \in {{}, {HostRow("e1", DefaultUser)}, {HostRow("e1", OtherUser)}},
        rsvps \in {{}, {RsvpRow("e1", OtherUser, "maybe")}}}

\* PRIMARY KEY and REFERENCES of SCHEMA; the primary host is no co-host
SeededTables ==
    {NoTables} \cup
    {t \in SeededEvents : \A h \in t.event_hosts : \A e \in t.events : h.user_id # e.host_id}

SeededInit ==
    /\ RunInit /\ BridgeIdle /\ SummaryIdle /\ TypesInit /\ GeneratorIdle /\ UsageIdle
    /\ ToolsIdle
    /\ \E t \in SeededTables :
           db = [o \in Objects |-> IF o \in McpSessions THEN t ELSE NoTables]
    /\ reply = NoReply

FlumaSeededSpec == SeededInit /\ [][FlumaNext]_vars

(***************************************************************************)
(* Usage accounting: onFinish reads 'total-usage', adds the turn's usage   *)
(* and writes the sum back.  The agent is a Durable Object: while one of   *)
(* its storage operations is pending the runtime delivers no other event   *)
(* to it (storage.get is called without allowConcurrency), so no other     *)
(* callback or call starts between the get and the put of an onFinish.     *)
(***************************************************************************)
\* storage.get with allowConcurrency: other events are delivered meanwhile
InputGateOpen_AllowConcurrency(turns) ==
    TRUE

\* no storage operation of the object is pending
InputGateOpen(turns) ==
    \A t \in Turns : turns[t] # "read"

\* storage.get('total-usage') || { inputTokens: 0, outputTokens: 0 }
StoredUsage(stored) ==
    IF stored = NoUsage THEN UsageData(0, 0) ELSE stored

\* currentUsage + (usage?.inputTokens || 0), the same for outputTokens
newUsage(current, u) ==
    IF u = NoUsage THEN current
    ELSE UsageData(current.inputTokens + u.inputTokens, current.outputTokens + u.outputTokens)

\* getUsage of the MCP agent, getUsage().total of the codemode agent
getUsage == StoredUsage(totalUsage)

\* onChatMessage: streamText starts
StartTurn(t) ==
    /\ turn[t] = "idle"
    /\ turn' = [turn EXCEPT ![t] = "streaming"]
    /\ UNCHANGED <<totalUsage, usage, currentUsage, reported>>
    /\ UNCHANGED outsideUsage

\* the stream ends: onFinish is called with event.usage and reads storage
OnFinishGet(t, u) ==
    /\ turn[t] = "streaming"
    /\ InputGateOpen(turn)
    /\ usage' = [usage EXCEPT ![t] = u]
    /\ currentUsage' = [currentUsage EXCEPT ![t] = StoredUsage(totalUsage)]
    /\ turn' = [turn EXCEPT ![t] = "read"]
    /\ UNCHANGED <<totalUsage, reported>>
    /\ UNCHANGED outsideUsage

\* onFinish writes the sum and the turn is finished
OnFinishPut(t) ==
    /\ turn[t] = "read"
    /\ totalUsage' = newUsage(currentUsage[t], usage[t])
    /\ reported' = newUsage(reported, usage[t])
    /\ turn' = [turn EXCEPT ![t] = "done"]
    /\ UNCHANGED <<usage, currentUsage>>
    /\ UNCHANGED outsideUsage

resetUsage ==
    /\ InputGateOpen(turn)
    /\ totalUsage' = UsageData(0, 0)
    /\ reported' = UsageData(0, 0)
    /\ UNCHANGED <<turn, usage, currentUsage>>
    /\ UNCHANGED outsideUsage

\* clearState: storage.delete('total-usage') (deleteAll in the MCP agent)
UsageClearState ==
    /\ InputGateOpen(turn)
    /\ totalUsage' = NoUsage
    /\ reported' = UsageData(0, 0)
    /\ UNCHANGED <<turn, usage, currentUsage>>
    /\ UNCHANGED outsideUsage

UsageNext ==
    \/ \E t \in Turns : StartTurn(t)
    \/ \E t \in Turns, u \in {NoUsage} \cup {UsageData(i, o) : i, o \in Tokens} : OnFinishGet(t, u)
    \/ \E t \in Turns : OnFinishPut(t)
    \/ resetUsage
    \/ UsageClearState

UsageSpec == Init /\ [][UsageNext]_vars

(***************************************************************************)
(* callFlumaTool of tools.ts, the bridge of the MCP agent's direct tool    *)
(* calls: one fetch, parseSSEResponse (the same function as in the worker  *)
(* module), and a JSON string {success, data} or {success, error}.  What   *)
(* it returns is written as a ToolResult, whose keys are the keys of the   *)
(* string: JSON.stringify leaves out a key whose value is undefined.       *)
(***************************************************************************)
\* message || fallback
OrElse(message, fallback) == IF message = "" THEN fallback ELSE message

\* JSON.stringify(v) as a string value
Serialized(v) == [k |-> "json", v |-> <<v>>]

\* result.result?.content?.[0]?.text || JSON.stringify(result.result)
FlumaToolData(result) ==
    LET text == result.content[1]
    IN  IF Len(result.content) > 0 /\ text # RawText("") /\ text # NoText
        THEN (IF text.json THEN Serialized(text.v) ELSE text.v)
        ELSE Serialized(Wrapper(result.content))

\* a plausible slip: callFlumaTool without its try/catch
callFlumaTool_NoCatch(http) ==
    IF http.body.sse = "unreachable" THEN ToolResult(TRUE, FALSE, Undef, "fetch failed")
    ELSE IF ~http.ok THEN ToolResult(FALSE, FALSE, Undef, "HTTP error: " \o http.status)
    ELSE IF parseSSEResponse(http.body).threw
    THEN ToolResult(TRUE, FALSE, Undef, parseSSEResponse(http.body).msg)
    ELSE IF http.body.rpc.tag = "error"
    THEN ToolResult(FALSE, FALSE, Undef, OrElse(http.body.rpc.msg, "Unknown MCP error"))
    ELSE ToolResult(FALSE, TRUE, FlumaToolData(http.body.rpc), "")

callFlumaTool(http) ==
    IF http.body.sse = "unreachable"
    THEN ToolResult(FALSE, FALSE, Undef, OrElse("fetch failed", "Network error occurred"))
    ELSE IF ~http.ok THEN ToolResult(FALSE, FALSE, Undef, "HTTP error: " \o http.status)
    ELSE IF parseSSEResponse(http.body).threw
    THEN ToolResult(FALSE, FALSE, Undef,
                    OrElse(parseSSEResponse(http.body).msg, "Network error occurred"))
    ELSE IF http.body.rpc.tag = "error"
    THEN ToolResult(FALSE, FALSE, Undef, OrElse(http.body.rpc.msg, "Unknown MCP error"))
    ELSE ToolResult(FALSE, TRUE, FlumaToolData(http.body.rpc), "")

\* what fetch can settle with: the responses of the backend with status
\* 200, a JSON-RPC error without message, and the same bodies under a
\* status that is not OK
HttpResponses ==
    LET bodies == BackendResponses \cup {SseResponse("data", RpcError(""))}
    IN  {HttpResponse(TRUE, "200 OK", b) : b \in bodies}
        \cup {HttpResponse(FALSE, status, b) :
                status \in {"404 Not Found", "500 Internal Server Error"},
                b \in {x \in bodies : x.sse # "unreachable"}}

\* a tool's execute calls callFlumaTool, which awaits fetch
CallFlumaTool(c) ==
    /\ toolPhase[c] = "idle"
    /\ toolPhase' = [toolPhase EXCEPT ![c] = "fetching"]
    /\ UNCHANGED <<httpResponse, toolOutput>>
    /\ UNCHANGED outsideTools

\* fetch settles: it rejects, or the status is not OK, or the body is awaited
FlumaFetchSettled(c) ==
    /\ toolPhase[c] = "fetching"
    /\ \E http \in HttpResponses :
         /\ httpResponse' = [httpResponse EXCEPT ![c] = http]
         /\ IF http.body.sse = "unreachable" \/ ~http.ok
            THEN /\ toolOutput' = [toolOutput EXCEPT ![c] = callFlumaTool(http)]
                 /\ toolPhase' = [toolPhase EXCEPT ![c] = "returned"]
            ELSE /\ toolPhase' = [toolPhase EXCEPT ![c] = "reading"]
                 /\ UNCHANGED toolOutput
    /\ UNCHANGED outsideTools

\* response.text() settles and callFlumaTool runs to its return
FlumaTextRead(c) ==
    /\ toolPhase[c] = "reading"
    /\ toolOutput' = [toolOutput EXCEPT ![c] = callFlumaTool(httpResponse[c])]
    /\ toolPhase' = [toolPhase EXCEPT ![c] = "returned"]
    /\ UNCHANGED httpResponse
    /\ UNCHANGED outsideTools

ToolsNext ==
    \/ \E c \in Invocations : CallFlumaTool(c)
    \/ \E c \in Invocations : FlumaFetchSettled(c)
    \/ \E c \in Invocations : FlumaTextRead(c)

ToolsSpec == Init /\ [][ToolsNext]_vars

(***************************************************************************)
(* Properties.                                                             *)
(***************************************************************************)
Done(e) == pc[e] = "done"
\* the run got as far as its worker: res[e] is the outcome of run[e].code
Ran(e) == Done(e) /\ xid[e] # <<>>
Failure(m) == ToolResult(FALSE, FALSE, Undef, m)
Success(v) == ToolResult(FALSE, TRUE, v, "")

\* C1: whatever the source and whatever the backend, the worker loader and
\* the session lookup do, a run of the codemode tool that has ended has
\* returned one tagged result, success with at most a result or failure
\* with an error message, and no exception has left execute.
C1_TaggedResult ==
    \A e \in Exec :
        Done(e) =>
            /\ ~res[e].escaped
            /\ \/ res[e].success /\ res[e].keys \in {{"success", "result"}, {"success"}}
               \/ ~res[e].success /\ res[e].keys = {"success", "error"}

\* C1 witness: one run ended on a transport failure of its capability call,
\* the other on the failure to obtain the session id.
C1_Witness ==
    /\ Ran(1) /\ run[1].code.kind = "call" /\ got[1].sse = "nodata"
    /\ res[1] = Failure("No data in SSE response")
    /\ Done(2) /\ res[2] = Failure("Failed to get MCP session ID")

\* the shapes summarizeResult leaves alone: a primitive, an array of 1 to
\* SummarizeLimit items, an object with no array field longer than that
KeptShape(v) ==
    IF IsArray(v) THEN Len(v.v) \in 1..SummarizeLimit
    ELSE IF IsObject(v)
    THEN \A i \in 1..Len(v.v) : ~(IsArray(v.v[i][2]) /\ Len(v.v[i][2].v) > SummarizeLimit)
    ELSE TRUE

\* C2 as claimed: a program returning the literal v, of any shape, ends in
\* {success:true, result: v} with v unchanged.
C2_LiteralUnchanged ==
    \A e \in Exec :
        Ran(e) /\ run[e].code.kind = "lit" => res[e] = Success(run[e].code.arg)

\* C2 amended: the program returning the literal v ends in success; v is
\* handed back unchanged when it is a primitive, an array of 1 to 5 items or
\* an object without an array field of more than 5 items; an empty array
\* comes back as {count: 0, items: []} and a longer array as an object that
\* starts with its count and its first item.
C2_LiteralSummarized ==
    \A e \in Exec :
        Ran(e) /\ run[e].code.kind = "lit" =>
            LET v == run[e].code.arg
                r == res[e].result
            IN  /\ ~res[e].escaped /\ res[e].success
                /\ KeptShape(v) => r = v
                /\ v = Arr(<<>>) => r = Obj(<< <<"count", Num(0)>>, <<"items", Arr(<<>>)>> >>)
                /\ IsArray(v) /\ Len(v.v) > SummarizeLimit =>
                       /\ IsObject(r)
                       /\ r.v[1] = <<"count", Num(Len(v.v))>>
                       /\ r.v[2] = <<"sample", v.v[1]>>
                /\ IsObject(v) /\ ~KeptShape(v) => IsObject(r) /\ r # v /\ KeptShape(r)

\* C2 witness: a run returned an array of three items and got it back.
C2_Witness ==
    \E e \in Exec :
        /\ Ran(e) /\ run[e].code = Prog("lit", "", Arr(Items(3)), FALSE)
        /\ res[e] = Success(Arr(Items(3)))

NotFound == SseResponse("data", RpcResult(<<RawText("Event not found")>>))

\* C3 as claimed: when the backend answers get_event on a missing id with
\* "Event not found", the call is raised in the program: uncaught it ends
\* the run in {success:false, error:"Event not found"}, caught it reaches
\* the catch block with that message.
C3_ApplicationErrorRaised ==
    \A e \in Exec :
        Ran(e) /\ run[e].code.kind = "call" /\ got[e] = NotFound =>
            res[e] = IF run[e].code.catch
                     THEN Success(Obj(<< <<"caught", Str("Event not found")>> >>))
                     ELSE Failure("Event not found")

\* a run is under way and has a step of its own to take
Active(e) == pc[e] \in {"init", "load", "awaiting", "running"}
RunStep(e) ==
    InitializeOk(e) \/ InitializeFails(e) \/ Load(e) \/ CallSettles(e) \/ FetchSettles(e)

\* C4 as claimed: a run whose program never resolves still ends: a run that
\* is under way always has a step left that takes it on (a timeout when
\* nothing else does).
C4_HungRunEnds ==
    \A e \in Exec : Active(e) => ENABLED RunStep(e)

\* C5 as claimed: every request sent from inside a worker goes to the
\* backend tool endpoint of the bridge.
C5_OnlyBackendEndpoint ==
    \A e \in Exec : \A i \in 1..Len(sent[e]) : sent[e][i].url = McpUrl

\* C6 as claimed: a program sees nothing of the host: env.<binding> is
\* undefined, a request for the host's debug endpoint brings back no host
\* state, and the module a run executes is the one built for that run.
C6_NoHostState ==
    \A e \in Exec :
        Ran(e) =>
            /\ run[e].code.kind = "env" => res[e] = Success(Undef)
            /\ run[e].code = Prog("fetch", HostDebugUrl, Undef, FALSE) => ~res[e].success
            /\ run[e].owner = e

\* C7 as claimed: a program that throws new Error(m) ends in
\* {success:false, error:m} with m unchanged.
C7_MessageUnchanged ==
    \A e \in Exec :
        Ran(e) /\ run[e].code.kind = "throw" => res[e] = Failure(run[e].code.arg.v[1])

\* C7 amended: a program that throws new Error(m) ends in a failure result,
\* never in an exception leaving execute; the error is m when m is not
\* empty and "Code execution failed" when m is the empty string.
C7_MessageOrFallback ==
    \A e \in Exec :
        Ran(e) /\ run[e].code.kind = "throw" =>
            LET m == run[e].code.arg.v[1]
            IN  res[e] = Failure(IF m # "" THEN m ELSE "Code execution failed")

\* C7 witness: a run threw "boom" and ended in {success:false, error:"boom"}.
C7_Witness ==
    \E e \in Exec :
        /\ Ran(e) /\ run[e].code = Prog("throw", "", Str("boom"), FALSE)
        /\ res[e] = Failure("boom")

\* the message the MCP server gives for a tool it does not know
UnknownTool == SseResponse("data", RpcError("Tool not found"))

C9_EmptySourceFails ==
    \A e \in Exec :
        Ran(e) /\ run[e].code.kind = "empty" =>
            /\ ~res[e].escaped
            /\ ~res[e].success
            /\ res[e].keys = {"success", "error"}
            /\ res[e].error # ""

\* C9 witness: a run was given the empty source and its module did not load.
C9_Witness ==
    \E e \in Exec :
        /\ Ran(e) /\ prog[e].kind = "empty" /\ run[e].owner = e
        /\ res[e] = Failure("Unexpected token ';'")

\* C10 as claimed: no two runs obtain the same execution id.
C10_DistinctExecutionIds ==
    \A a, b \in Exec :
        a # b /\ xid[a] # <<>> /\ xid[b] # <<>> => xid[a] # xid[b]

\* a capability call among the requests of a run
IsToolCall(q) == q.url = McpUrl /\ q.tool # ""

\* C11 as claimed: every capability call of a run carries the session id
\* that executeCode obtained for that run, also when runs overlap and when
\* the session is cleared and initialized again while a run is under way.
C11_CallsCarryOwnSession ==
    \A e \in Exec : \A i \in 1..Len(sent[e]) :
        IsToolCall(sent[e][i]) => sent[e][i].session = sid[e]

\* the same for the runs whose worker was built from their own module
C11_OwnModuleCarriesOwnSession ==
    \A e \in Exec : \A i \in 1..Len(sent[e]) :
        IsToolCall(sent[e][i]) /\ run[e].owner = e => sent[e][i].session = sid[e]

\* what a run holds of CODE_EXECUTOR: the worker loaded under its id
Held(e) == xid[e] # <<>> /\ xid[e] \in DOMAIN isolates
\* executeCode has returned or thrown and the run holds nothing any more
TornDown(e) == Done(e) /\ ~Held(e)

\* C12 as claimed: a run that has started, whether it succeeds, fails while
\* running or fails before its program starts, comes to the torn-down
\* state: until it is there it always has a step of its own left.
C12_RunReachesTornDown ==
    \A e \in Exec : pc[e] # "idle" => TornDown(e) \/ ENABLED RunStep(e)

\* C13: one call of a proxy member sends one request to the backend,
\* whatever becomes of it: while the call is awaited and after the run has
\* ended, the run has sent exactly the one request of its call, and a run
\* that has ended, in success or in failure, is not run again: it sends
\* nothing more and its result and its worker stay as they are.
C13_OneRequestPerCall ==
    /\ [](\A e \in Exec :
            pc[e] \in {"awaiting", "done"} /\ xid[e] # <<>> /\ run[e].code.kind = "call" =>
                /\ Len(sent[e]) = 1
                /\ sent[e][1] = Request(McpUrl, run[e].code.tool, run[e].code.arg, run[e].session))
    /\ [][\A e \in Exec :
            Done(e) => Done(e)' /\ sent'[e] = sent[e] /\ res'[e] = res[e] /\ run'[e] = run[e]]_vars

\* C13 witness: one run ended on an unreachable backend, the other on the
\* backend's error answer, each having sent its request once.
C13_Witness ==
    /\ Ran(1) /\ run[1].code.kind = "call" /\ got[1].sse = "unreachable"
    /\ ~res[1].success /\ Len(sent[1]) = 1
    /\ Ran(2) /\ run[2].code.kind = "call" /\ got[2] = UnknownTool
    /\ ~res[2].success /\ Len(sent[2]) = 1

\* the Error a transport failure of the call raises in callTool
TransportMessage(sse) ==
    IF sse = "unreachable" THEN "fetch failed"
    ELSE IF sse = "nodata" THEN "No data in SSE response"
    ELSE "Unexpected token in JSON"

\* C14: a capability call whose backend is unreachable, or whose response
\* has no data line, or whose data line is not JSON, fails in the program
\* with an Error: a program that catches it goes on and its run succeeds,
\* a program that does not ends its run in a failure result with that
\* Error's message.
C14_TransportFailureCatchable ==
    \A e \in Exec :
        Ran(e) /\ run[e].code.kind = "call" /\ got[e].sse \in {"unreachable", "nodata", "badjson"} =>
            res[e] = IF run[e].code.catch
                     THEN Success(Obj(<< <<"caught", Str(TransportMessage(got[e].sse))>> >>))
                     ELSE Failure(TransportMessage(got[e].sse))

\* C14 witness: one run caught the failure of a response without a data
\* line and succeeded, the other did not catch a data line that is not JSON
\* and ended in a failure result.
C14_Witness ==
    /\ Ran(1) /\ run[1].code.kind = "call" /\ run[1].code.catch
    /\ got[1].sse = "nodata" /\ res[1].success
    /\ Ran(2) /\ run[2].code.kind = "call" /\ ~run[2].code.catch
    /\ got[2].sse = "badjson" /\ res[2] = Failure("Unexpected token in JSON")

\* callTool of invocation c returned a value (it did not throw)
CallSucceeded(c) == phase[c] = "returned" /\ ~outcome[c].threw
\* its value is the text parsed, or the text itself
Parsed(c) == answer[c].rpc.content # <<>> /\ answer[c].rpc.content[1].json
RawFallback(c) ==
    /\ answer[c].rpc.content # <<>>
    /\ ~answer[c].rpc.content[1].json
    /\ answer[c].rpc.content[1] \notin {RawText(""), NoText}

\* C15 as claimed: the value of a successful capability call tells whether
\* it is the payload parsed or the raw text: a call that returned the
\* parsed payload and a call that returned the raw text never return the
\* same value.
C15_ParsedToldFromRaw ==
    \A a, b \in Invocations :
        CallSucceeded(a) /\ CallSucceeded(b) /\ Parsed(a) /\ RawFallback(b) =>
            outcome[a].val # outcome[b].val

\* C16 as claimed: what a successful capability call returns is the payload
\* only, never the content-list wrapper of the response (nor the JSON-RPC
\* or streaming envelope around it), also for a response with no text
\* content or an empty text.
C16_PayloadOnly ==
    \A c \in Invocations :
        CallSucceeded(c) => outcome[c].val.k # "wrapper"

\* each of the two invocations resolves with the response to its own
\* request, in whatever order the two responses arrive and are read
C17_OwnResponse ==
    \A c \in Invocations :
        phase[c] = "returned" => outcome[c] = callTool(answer[c])

\* C17 as claimed, for the runs: overlapping runs share nothing through
\* which one could change what another calls or returns: the worker of a
\* run executes the program given to that run, with the session id obtained
\* for that run.
C17_RunsShareNothing ==
    \A e \in Exec :
        xid[e] # <<>> => run[e].code = prog[e] /\ run[e].session = sid[e]

\* the text of an execution id: `code-${Date.now()}-${...}`
ExecutionIdText(x) == "code-" \o ToString(x[1]) \o "-" \o x[2]

\* C18 as claimed: a failure result has the success flag and the error
\* message and nothing else, and the message is never the stack trace of
\* the worker, the execution id of the run or a session id.
C18_FailureOnlyMessage ==
    \A e \in Exec :
        Done(e) /\ ~res[e].success =>
            /\ res[e].keys = {"success", "error"}
            /\ res[e].error # WorkerStack
            /\ xid[e] # <<>> => res[e].error # ExecutionIdText(xid[e])
            /\ \A session \in 1..MaxSessions : res[e].error # SessionIdText(session)

\* the same without the session id
C18_NoStackNoExecutionId ==
    \A e \in Exec :
        Done(e) /\ ~res[e].success =>
            /\ res[e].keys = {"success", "error"}
            /\ res[e].error # WorkerStack
            /\ xid[e] # <<>> => res[e].error # ExecutionIdText(xid[e])

LongArray(v) == IsArray(v) /\ Len(v.v) > SummarizeLimit

RECURSIVE HasLongArray(_)
HasLongArray(v) ==
    \/ LongArray(v)
    \/ IsArray(v) /\ \E i \in 1..Len(v.v) : HasLongArray(v.v[i])
    \/ IsObject(v) /\ \E i \in 1..Len(v.v) : HasLongArray(v.v[i][2])

\* C19 as claimed: whatever JSON value the program returned, the summarized
\* result has no array of more than 5 elements at any depth.
C19_NoLongArrayAtAnyDepth ==
    inserted # NotSummarized => ~HasLongArray(inserted)

\* C19 amended: the summarized result is never itself an array of more than
\* 5 elements: such an array is replaced by its count, its first element as
\* sample and a message; when the program returned an object, no field of
\* the result is an array of more than 5 elements (such a field is replaced
\* the same way); every other value comes back as it is, the sample too.
C19_TopLevelBounded ==
    inserted # NotSummarized =>
        /\ ~LongArray(inserted)
        /\ LongArray(returned) =>
               /\ IsObject(inserted)
               /\ inserted.v[1] = <<"count", Num(Len(returned.v))>>
               /\ inserted.v[2] = <<"sample", returned.v[1]>>
        /\ IsObject(returned) =>
               /\ IsObject(inserted) /\ Len(inserted.v) = Len(returned.v)
               /\ \A i \in 1..Len(returned.v) :
                      /\ ~LongArray(inserted.v[i][2])
                      /\ ~LongArray(returned.v[i][2]) => inserted.v[i] = returned.v[i]
        /\ IsArray(returned) /\ Len(returned.v) \in 1..SummarizeLimit => inserted = returned
        /\ ~IsArray(returned) /\ ~IsObject(returned) => inserted = returned

\* C19 witness: the program returned an object whose field is an array of
\* 6 arrays of 6 items; the field came back as a count and a sample, and
\* the sample is an array of 6.
C19_Witness ==
    /\ IsObject(returned) /\ LongArray(returned.v[1][2])
    /\ inserted # NotSummarized
    /\ inserted.v[1][2].v[1] = <<"count", Num(SummarizeLimit + 1)>>
    /\ LongArray(inserted.v[1][2].v[2][2])

\* C20 as claimed: the cached types never go stale: every chat turn that
\* builds a system prompt builds it with the declaration of the catalog
\* Fluma serves at that time, whatever deployments came before the turn.
C20_TurnUsesCurrentTypes ==
    [][messages' = messages + 1 /\ generatedTypes' # NoTypes =>
           generatedTypes' = generateTypeScript(toolDefinitions)]_vars

\* the same for the turns that had to fetch: what getToolTypes fetches is
\* the declaration of the catalog served
C20_FetchedTypesCurrent ==
    [][messages' = messages + 1 /\ cachedTypes = NoTypes /\ generatedTypes' # NoTypes =>
           generatedTypes' = generateTypeScript(toolDefinitions)]_vars

DeclaredOptional(field) == \E i \in 1..Len(field.chain) : field.chain[i].call = "optional"
DeclaredEnum(field) == field.chain[1].call = "enum"
Union(options) == Join([i \in 1..Len(options) |-> "'" \o options[i] \o "'"], " | ")

\* the field as the claim has it rendered
ExpectedField(field) ==
    field.key \o (IF DeclaredOptional(field) THEN "?" ELSE "") \o ": "
    \o (IF DeclaredEnum(field) THEN Union(field.chain[1].args) ELSE "string")

ExpectedDeclaration(defs) ==
    Declaration([t \in 1..Len(defs) |->
        defs[t].name \o "({"
        \o Join([i \in 1..Len(defs[t].schema) |-> ExpectedField(defs[t].schema[i])], ", ")
        \o "}): Promise<any> // " \o defs[t].description])

\* C22: in the declaration generated for the catalog, every tool has its
\* fields in the order of its schema, a field has '?' after its name
\* exactly when the schema declares it optional, and an enum field,
\* optional or not, has as its type the union of its quoted values in the
\* order declared.
C22_FieldsAsDeclared ==
    /\ cachedTypeScript = ExpectedDeclaration(toolDefinitions)
    /\ typeScript.defs # <<>> => typeScript.text = ExpectedDeclaration(typeScript.defs)

\* C22 witness: the declaration was generated again for the whole catalog,
\* which has optional and required enum fields and optional strings.
C22_Witness ==
    /\ typeScript.defs = ToolDefinitions
    /\ \E t \in 1..Len(typeScript.defs) : \E i \in 1..Len(typeScript.defs[t].schema) :
         DeclaredEnum(typeScript.defs[t].schema[i]) /\ DeclaredOptional(typeScript.defs[t].schema[i])
    /\ \E t \in 1..Len(typeScript.defs) : \E i \in 1..Len(typeScript.defs[t].schema) :
         DeclaredEnum(typeScript.defs[t].schema[i]) /\ ~DeclaredOptional(typeScript.defs[t].schema[i])
    /\ typeScript.text = cachedTypeScript

RECURSIVE ExpectedDescriptions(_)
ExpectedDescriptions(defs) ==
    IF Len(defs) = 0 THEN ""
    ELSE "- " \o Head(defs).name \o ": " \o Head(defs).description
         \o (IF Len(defs) = 1 THEN "" ELSE "\n" \o ExpectedDescriptions(Tail(defs)))

\* C23: the description list generated for the catalog is one line
\* "- name: description" per tool, in the order of the catalog, the lines
\* separated by a line break; no tool of the catalog is left out and none
\* appears twice.
C23_OneLinePerTool ==
    /\ \A a, b \in 1..Len(toolDefinitions) :
         a # b => toolDefinitions[a].name # toolDefinitions[b].name
    /\ cachedToolDescriptions = ExpectedDescriptions(toolDefinitions)
    /\ toolDescriptions.defs # <<>> =>
           toolDescriptions.text = ExpectedDescriptions(toolDescriptions.defs)

\* C23 witness: the list was generated again for the whole catalog.
C23_Witness ==
    /\ toolDescriptions.defs = ToolDefinitions
    /\ Len(toolDescriptions.defs) > 1
    /\ toolDescriptions.text = cachedToolDescriptions

\* C24 as claimed: whenever a run sends a capability call while the MCP
\* agent holds a session (the one its direct tool calls carry), the call
\* carries that session, also after clearState and a new initialize while
\* the run is under way.  Stated for the runs whose worker was built from
\* their own module.
C24_SameSessionAsMcpAgent ==
    [][\A e \in Exec :
          /\ Len(sent'[e]) > Len(sent[e])
          /\ IsToolCall(sent'[e][Len(sent'[e])])
          /\ run'[e].owner = e
          /\ mcpSessionId' # 0
          => sent'[e][Len(sent'[e])].session = mcpSessionId']_vars

\* C27 as claimed: a call of getSharedSessionId that returns while the MCP
\* agent holds an identifier (no clearState since it was stored) returns
\* that identifier, also when the call began before it was stored.
C27_OneSessionBetweenClears ==
    [][\A e \in Exec :
          sid'[e] # sid[e] /\ mcpSessionId # 0 => sid'[e] = mcpSessionId]_vars

\* C25 as claimed: when the last request answered is POST /admin/reset,
\* answered with success, list_events through every MCP session finds no
\* events.
C25_ResetEmptiesSessions ==
    reply.tool = "/admin/reset" =>
        \A s \in McpSessions : list_events(db[s]).text = "No events found"

\* the part of C25 that holds: the reset keeps the users of the Durable
\* Object it addresses and leaves it without events, co-hosts and RSVPs
C25_SharedObjectEmptied ==
    [][reply'.tool = "/admin/reset" =>
          /\ db'[SharedObject].users = db[SharedObject].users
          /\ db'[SharedObject].events = {}
          /\ db'[SharedObject].event_hosts = {}
          /\ db'[SharedObject].rsvps = {}]_vars

\* C30: in every Durable Object, after any sequence of tool calls and
\* admin resets, every rsvps row and every event_hosts row has the event_id
\* of a row of events.
C30_RowsReferToEvents ==
    \A o \in Objects :
        /\ \A r \in db[o].rsvps : EventsWithId(db[o], r.event_id) # {}
        /\ \A h \in db[o].event_hosts : EventsWithId(db[o], h.event_id) # {}

\* C30 witness: delete_event deleted an event that had an attendee while
\* the other event and its RSVP stay.
C30_Witness ==
    /\ reply.tool = "delete_event"
    /\ reply.text = "Event deleted successfully. Notified 1 attendee(s)."
    /\ EventsWithId(db[reply.object], reply.event_id) = {}
    /\ db[reply.object].rsvps # {}

HostTools == {"update_event", "add_cohost", "delete_event", "remove_cohost"}
RowsOf(t) == <<t.events, t.event_hosts, t.rsvps>>
IsPrimaryHost(t, x, u) == \E e \in t.events : e.id = x /\ e.host_id = u
IsCoHost(t, x, u) == \E h \in t.event_hosts : h.event_id = x /\ h.user_id = u

\* C26: a call of update_event or add_cohost that changes a row of events,
\* event_hosts or rsvps is made by the primary host or a co-host of the
\* event it names, one of delete_event or remove_cohost by its primary
\* host; so a call that names no event, or an event the caller may not
\* manage, changes none of these rows.
C26_HostToolsNeedHost ==
    [][\A s \in McpSessions :
          /\ reply'.object = s
          /\ reply'.tool \in HostTools
          /\ RowsOf(db'[s]) # RowsOf(db[s])
          => /\ IsPrimaryHost(db[s], reply'.event_id, DefaultUser)
                \/ /\ reply'.tool \in {"update_event", "add_cohost"}
                   /\ IsCoHost(db[s], reply'.event_id, DefaultUser)]_vars

\* C26 witness: delete_event was refused to a co-host of an event of
\* another user, and the event, its co-host row and its RSVPs are there.
C26_Witness ==
    /\ reply.tool = "delete_event"
    /\ reply.text = "Only the primary host can delete an event"
    /\ IsCoHost(db[reply.object], reply.event_id, DefaultUser)
    /\ ~IsPrimaryHost(db[reply.object], reply.event_id, DefaultUser)
    /\ \E r \in db[reply.object].rsvps : r.event_id = reply.event_id

RequestFailed(c) ==
    \/ httpResponse[c].body.sse # "data"
    \/ ~httpResponse[c].ok
    \/ httpResponse[c].body.rpc.tag = "error"

\* C29: callFlumaTool never throws; what it returns has the key success,
\* which is false together with a non-empty error (and no data) when the
\* request failed, and true together with the data (and no error) when it
\* did not.
C29_AlwaysJsonOutcome ==
    \A c \in Invocations : toolPhase[c] = "returned" =>
        /\ ~toolOutput[c].escaped
        /\ IF RequestFailed(c)
           THEN /\ ~toolOutput[c].success
                /\ toolOutput[c].error # ""
                /\ toolOutput[c].keys = {"success", "error"}
           ELSE /\ toolOutput[c].success
                /\ toolOutput[c].result # Undef
                /\ toolOutput[c].keys = {"success", "result"}

\* C29 witness: of two calls one got a body without a data line and the
\* other a JSON-RPC error without a message, and both have returned.
C29_Witness ==
    /\ toolPhase[1] = "returned" /\ httpResponse[1].ok /\ httpResponse[1].body.sse = "nodata"
    /\ toolOutput[1].error = "No data in SSE response"
    /\ toolPhase[2] = "returned" /\ httpResponse[2].body = SseResponse("data", RpcError(""))
    /\ httpResponse[2].ok
    /\ toolOutput[2].error = "Unknown MCP error"

====
